---- MODULE Spec2Model ----
(***************************************************************************)
(* Model of the homink sensor state system (src/homink-entrance.h):        *)
(* the sensor records (BaseSensor and its four kinds), the unified linked  *)
(* list of ISensor, and the SENSOR_UPDATE_CALLBACK macro that feeds the    *)
(* redraw latch and the Home Assistant connection tracker.                 *)
(*                                                                         *)
(* Numeric readings are floats in the source.  The model uses the integer  *)
(* grid 0..MaxNum (every such value and every difference of two of them is *)
(* exact in binary floating point) plus FLT_MAX, the sentinel              *)
(* std::numeric_limits<float>::max().                                      *)
(***************************************************************************)
EXTENDS Integers, Sequences, FiniteSets, TLC

\* Numeric readings range over 0..MaxNum (and the sentinel).
MaxNum == 2

\* At most MaxHist operations are recorded (and applied) between two
\* publications of a source.
MaxHist == 3

\* Significant triggers of one redraw period are counted up to MaxTriggers.
MaxTriggers == 2

\* The clock runs from 0 to MaxTime.
MaxTime == 3

\* The connection timeout the timeout tick passes to check_timeout(), in
\* clock units (1800 s on the device).
timeout_window == 2

\* std::numeric_limits<float>::max(), the initial cache of a ThresholdSensor.
FLT_MAX == 1000

(***************************************************************************)
(* The sensor declarations of the device header (an abbreviated table: one *)
(* record per sensor type alias).                                          *)
(***************************************************************************)
Sensors == {"gate1", "weather", "charger", "temperature", "wifi_rssi"}

\* The class template behind each declaration macro.
Kind(n) ==
  CASE n = "gate1"       -> "StateSensor"
    [] n = "weather"     -> "StateSensor"
    [] n = "charger"     -> "FilteredTextStateSensor"
    [] n = "temperature" -> "ThresholdSensor"
    [] n = "wifi_rssi"   -> "PassiveSensor"

\* ValueType of the type alias: bool, std::string or float.
ValueType(n) ==
  CASE n = "gate1"       -> "bool"
    [] n = "weather"     -> "string"
    [] n = "charger"     -> "string"
    [] n = "temperature" -> "float"
    [] n = "wifi_rssi"   -> "float"

\* SENSOR_THRESHOLD(S_TEMPERATURE, "Temperature", "sensor.birgenshire_temp", 1.0)
threshold(n) == 1

\* SENSOR_TEXT_FILTERED(S_CHARGER, ..., "unavailable")
ignored_value(n) == "unavailable"

\* The values a source of the given ValueType can publish.
TextValues == {"", "Charging", "Idle", "unavailable"}

NumValues == (0..MaxNum) \cup {FLT_MAX}

Values(n) ==
  CASE ValueType(n) = "bool"   -> BOOLEAN
    [] ValueType(n) = "string" -> TextValues
    [] ValueType(n) = "float"  -> NumValues

\* ValueType(): the value-initialised ValueType.
DefaultValue(n) ==
  CASE ValueType(n) = "bool"   -> FALSE
    [] ValueType(n) = "string" -> ""
    [] ValueType(n) = "float"  -> 0

\* The initial_val each constructor passes to BaseSensor.
initial_val(n) ==
  IF Kind(n) = "ThresholdSensor" THEN FLT_MAX ELSE DefaultValue(n)

Abs(x) == IF x < 0 THEN -x ELSE x

\* The entity_id string of each declaration, as its characters.
\* "binary_sensor.aqara_door_and_window_sensor_p2_door_2"
entity_id_gate1 ==
  <<"b", "i", "n", "a", "r", "y", "_", "s", "e", "n", "s", "o", "r", ".",
    "a", "q", "a", "r", "a", "_", "d", "o", "o", "r", "_", "a", "n", "d",
    "_", "w", "i", "n", "d", "o", "w", "_", "s", "e", "n", "s", "o", "r",
    "_", "p", "2", "_", "d", "o", "o", "r", "_", "2">>

\* "sensor.openweathermap_condition"
entity_id_weather ==
  <<"s", "e", "n", "s", "o", "r", ".", "o", "p", "e", "n", "w", "e", "a",
    "t", "h", "e", "r", "m", "a", "p", "_", "c", "o", "n", "d", "i", "t",
    "i", "o", "n">>

\* "sensor.tesla_wall_connector_status"
entity_id_charger ==
  <<"s", "e", "n", "s", "o", "r", ".", "t", "e", "s", "l", "a", "_", "w",
    "a", "l", "l", "_", "c", "o", "n", "n", "e", "c", "t", "o", "r", "_",
    "s", "t", "a", "t", "u", "s">>

\* "sensor.birgenshire_temp"
entity_id_temperature ==
  <<"s", "e", "n", "s", "o", "r", ".", "b", "i", "r", "g", "e", "n", "s",
    "h", "i", "r", "e", "_", "t", "e", "m", "p">>

\* "wifisignal"
entity_id_wifi_rssi ==
  <<"w", "i", "f", "i", "s", "i", "g", "n", "a", "l">>

\* BaseSensor::entity_id()
entity_id(n) ==
  CASE n = "gate1"       -> entity_id_gate1
    [] n = "weather"     -> entity_id_weather
    [] n = "charger"     -> entity_id_charger
    [] n = "temperature" -> entity_id_temperature
    [] n = "wifi_rssi"   -> entity_id_wifi_rssi

VARIABLES
  list,                     \* the chain _list_head, _next, ...: registered sensors
  sensor,                   \* sensor[n]: _sensor is not nullptr
  has_state,                \* has_state[n]: _has_state, the cached availability
  value,                    \* value[n]: _value, the cached value
  src,                      \* src[n]: the ESPHome sensor object (has_state(), state)
  data_updated,             \* id(data_updated): the redraw latch
  ha_connected,             \* id(ha_connected)
  last_ha_connection_time,  \* id(last_ha_connection_time)
  now,                      \* id(homeassistant_time).now().timestamp
  last_reading,             \* time of the last accepted push notification (-1: none yet)
  ret,                      \* the last call: its receiver, result and the state before it
  hist,                     \* the calls on the record since its source last published
  fresh,                    \* the record was as constructed when its source last published
  drift,                    \* what the last publication was for the threshold baseline
  triggers,                 \* significant triggers of the current redraw period
  redraws                   \* true results of consume_redraw_decision() in that period

vars == <<list, sensor, has_state, value, src, data_updated, ha_connected,
          last_ha_connection_time, now, last_reading, ret, hist, fresh, drift, triggers, redraws>>

\* The globals of the refresh decision and of the connection tracker.
Globals == [data_updated |-> data_updated, ha_connected |-> ha_connected,
            last_ha_connection_time |-> last_ha_connection_time, now |-> now]

NoRet == [op |-> "none", name |-> "", result |-> FALSE,
          old_has_state |-> FALSE, old_value |-> 0,
          old_globals |-> [data_updated |-> FALSE, ha_connected |-> FALSE,
                           last_ha_connection_time |-> 0, now |-> 0]]

\* Elements of a sequence.
Range(s) == {s[i] : i \in 1..Len(s)}

(***************************************************************************)
(* The significance rules.  Each returns the method's result and the       *)
(* cached value it leaves behind.                                          *)
(***************************************************************************)

\* Mutant: the comparison inverted (== for !=).
StateSensor_equal_is_significant(current, cached) ==
  [result |-> current = cached, value |-> cached]

\* Mutant: a significant change stores the current value.
StateSensor_stores_on_change(current, cached) ==
  [result |-> current # cached, value |-> current]

\* StateSensor::is_value_change_significant
StateSensor_is_value_change_significant(current, cached) ==
  [result |-> current # cached, value |-> cached]

\* Mutant: the current value is stored whatever the comparison says.
ThresholdSensor_always_stores(current, cached, t) ==
  IF cached = FLT_MAX
    THEN [result |-> TRUE, value |-> current]
    ELSE IF Abs(current - cached) > t
      THEN [result |-> TRUE, value |-> current]
      ELSE [result |-> FALSE, value |-> current]

\* Mutant: >= for > in the threshold comparison.
ThresholdSensor_inclusive_compare(current, cached, t) ==
  IF cached = FLT_MAX
    THEN [result |-> TRUE, value |-> current]
    ELSE IF Abs(current - cached) >= t
      THEN [result |-> TRUE, value |-> current]
      ELSE [result |-> FALSE, value |-> cached]

\* ThresholdSensor::is_value_change_significant
ThresholdSensor_is_value_change_significant(current, cached, t) ==
  IF cached = FLT_MAX
    THEN [result |-> TRUE, value |-> current]
    ELSE IF Abs(current - cached) > t
      THEN [result |-> TRUE, value |-> current]
      ELSE [result |-> FALSE, value |-> cached]

\* PassiveSensor::is_value_change_significant
PassiveSensor_is_value_change_significant(current, cached) ==
  [result |-> FALSE, value |-> cached]

\* Mutant: only a transition to the ignored value is filtered.
FilteredTextStateSensor_cached_not_filtered(current, cached, ignored) ==
  IF current = ignored
    THEN [result |-> FALSE, value |-> cached]
    ELSE [result |-> current # cached, value |-> cached]

\* Mutant: only a transition from the ignored value is filtered.
FilteredTextStateSensor_current_not_filtered(current, cached, ignored) ==
  IF cached = ignored
    THEN [result |-> FALSE, value |-> cached]
    ELSE [result |-> current # cached, value |-> cached]

\* FilteredTextStateSensor::is_value_change_significant
FilteredTextStateSensor_is_value_change_significant(current, cached, ignored) ==
  IF current = ignored
    THEN [result |-> FALSE, value |-> cached]
    ELSE IF cached = ignored
      THEN [result |-> FALSE, value |-> cached]
      ELSE [result |-> current # cached, value |-> cached]

\* The virtual call is_value_change_significant() on record n, whose _value
\* is cached.
is_value_change_significant(n, cached) ==
  CASE Kind(n) = "StateSensor" ->
         StateSensor_is_value_change_significant(src[n].state, cached)
    [] Kind(n) = "ThresholdSensor" ->
         ThresholdSensor_is_value_change_significant(src[n].state, cached, threshold(n))
    [] Kind(n) = "PassiveSensor" ->
         PassiveSensor_is_value_change_significant(src[n].state, cached)
    [] Kind(n) = "FilteredTextStateSensor" ->
         FilteredTextStateSensor_is_value_change_significant(src[n].state, cached,
                                                             ignored_value(n))

\* Mutant: the return on an unavailable source is missing (the value rule
\* runs on a source without state).
BaseSensor_should_trigger_update_no_state_return(n, cached_has_state, cached) ==
  IF ~sensor[n]
    THEN [result |-> FALSE, value |-> cached]
    ELSE IF src[n].has_state # cached_has_state
      THEN [result |-> TRUE, value |-> cached]
      ELSE is_value_change_significant(n, cached)

\* Mutant: the check for a null _sensor is missing (the source object is read
\* whether or not set_sensor() has run).
BaseSensor_should_trigger_update_no_null_check(n, cached_has_state, cached) ==
  IF src[n].has_state # cached_has_state
    THEN [result |-> TRUE, value |-> cached]
    ELSE IF ~src[n].has_state
      THEN [result |-> FALSE, value |-> cached]
      ELSE is_value_change_significant(n, cached)

\* Mutant: the availability comparison is missing.
BaseSensor_should_trigger_update_value_only(n, cached_has_state, cached) ==
  IF ~sensor[n]
    THEN [result |-> FALSE, value |-> cached]
    ELSE IF ~src[n].has_state
      THEN [result |-> FALSE, value |-> cached]
      ELSE is_value_change_significant(n, cached)

\* BaseSensor::should_trigger_update on record n, whose _has_state is
\* cached_has_state and whose _value is cached: the result and the _value left.
BaseSensor_should_trigger_update(n, cached_has_state, cached) ==
  IF ~sensor[n]
    THEN [result |-> FALSE, value |-> cached]
    ELSE IF src[n].has_state # cached_has_state
      THEN [result |-> TRUE, value |-> cached]
      ELSE IF ~src[n].has_state
        THEN [result |-> FALSE, value |-> cached]
        ELSE is_value_change_significant(n, cached)

\* should_trigger_update() on record n in the current state.
should_trigger_update(n) == BaseSensor_should_trigger_update(n, has_state[n], value[n])

\* The loop of ISensor::check_all_for_changes from the i-th record on; v is
\* the records' _value so far.  Each record is visited once, so the call on
\* list[i] reads the _value the pass found.
RECURSIVE check_from(_, _)
check_from(i, v) ==
  IF i > Len(list)
    THEN [result |-> FALSE, value |-> v, name |-> ""]
    ELSE LET r == should_trigger_update(list[i])
         IN  IF r.result
               THEN [result |-> TRUE, value |-> [v EXCEPT ![list[i]] = r.value],
                     name |-> list[i]]
               ELSE check_from(i + 1, [v EXCEPT ![list[i]] = r.value])

\* Mutant: the loop returns the result of the head record (a return inside
\* the loop body).
check_all_first_record_only ==
  LET r == should_trigger_update(list[1])
  IN  [result |-> r.result, value |-> [value EXCEPT ![list[1]] = r.value],
       name |-> IF r.result THEN list[1] ELSE ""]

\* ISensor::check_all_for_changes: the result, the records' _value left and
\* the record the pass stopped at.
check_all_for_changes == check_from(1, value)

\* Mutant: update_value_from_sensor() is not called.
update_availability_only(n) ==
  IF ~sensor[n]
    THEN [has_state |-> has_state[n], value |-> value[n]]
    ELSE [has_state |-> src[n].has_state, value |-> value[n]]

\* BaseSensor::update on record n: cached availability and cached value left.
update(n) ==
  IF ~sensor[n]
    THEN [has_state |-> has_state[n], value |-> value[n]]
    ELSE IF src[n].has_state
      THEN [has_state |-> TRUE, value |-> src[n].state]
      ELSE [has_state |-> FALSE, value |-> value[n]]

\* Mutant: the loop starts at the record behind the head.
RECURSIVE update_skipping_head(_, _, _, _)
update_skipping_head(i, hs, v, visited) ==
  IF i > Len(list)
    THEN [has_state |-> hs, value |-> v, visited |-> visited]
    ELSE update_skipping_head(i + 1,
                              [hs EXCEPT ![list[i]] = update(list[i]).has_state],
                              [v EXCEPT ![list[i]] = update(list[i]).value],
                              Append(visited, list[i]))

update_all_but_head == update_skipping_head(2, has_state, value, <<>>)

\* The loop of ISensor::update_all from the i-th record on: the caches so
\* far and the records update() was called on, in call order.  The records
\* are distinct, so each update() reads its own record only.
RECURSIVE update_from(_, _, _, _)
update_from(i, hs, v, visited) ==
  IF i > Len(list)
    THEN [has_state |-> hs, value |-> v, visited |-> visited]
    ELSE update_from(i + 1,
                     [hs EXCEPT ![list[i]] = update(list[i]).has_state],
                     [v EXCEPT ![list[i]] = update(list[i]).value],
                     Append(visited, list[i]))

\* ISensor::update_all: update() on every record of the list, in order.
update_all == update_from(1, has_state, value, <<>>)

\* strchr(s, c) from position i on: the position of the first c, 0 for
\* nullptr.
RECURSIVE strchr_from(_, _, _)
strchr_from(s, i, c) ==
  IF i > Len(s) THEN 0
  ELSE IF s[i] = c THEN i
  ELSE strchr_from(s, i + 1, c)

strchr(s, c) == strchr_from(s, 1, c)

\* Mutant: the separator is appended after every entity.
RECURSIVE entity_list_comma_after(_, _)
entity_list_comma_after(i, acc) ==
  IF i > Len(list) THEN acc
  ELSE IF strchr(entity_id(list[i]), ".") # 0
    THEN entity_list_comma_after(i + 1, acc \o entity_id(list[i]) \o <<",">>)
    ELSE entity_list_comma_after(i + 1, acc)

get_ha_entity_list_trailing_comma == entity_list_comma_after(1, <<>>)

\* The loop of ISensor::get_ha_entity_list from the i-th record on; acc is
\* the std::string built so far.
RECURSIVE entity_list_from(_, _)
entity_list_from(i, acc) ==
  IF i > Len(list) THEN acc
  ELSE IF strchr(entity_id(list[i]), ".") # 0
    THEN entity_list_from(i + 1,
                          (IF Len(acc) # 0 THEN acc \o <<",">> ELSE acc)
                            \o entity_id(list[i]))
    ELSE entity_list_from(i + 1, acc)

\* ISensor::get_ha_entity_list
get_ha_entity_list == entity_list_from(1, <<>>)

(***************************************************************************)
(* State after static construction of one record.                          *)
(***************************************************************************)
InitRecords ==
  /\ sensor = [n \in Sensors |-> FALSE]
  /\ has_state = [n \in Sensors |-> FALSE]
  /\ value = [n \in Sensors |-> initial_val(n)]
  /\ src = [n \in Sensors |-> [has_state |-> FALSE, state |-> DefaultValue(n)]]
  /\ data_updated = FALSE
  /\ ha_connected = FALSE
  /\ last_ha_connection_time = 0
  /\ now = 0
  /\ last_reading = -1
  /\ ret = NoRet
  /\ hist = <<>>
  /\ fresh = TRUE
  /\ drift = "none"
  /\ triggers = 0
  /\ redraws = 0

Init ==
  /\ \E n \in Sensors : list = <<n>>
  /\ InitRecords

coord == <<data_updated, ha_connected, last_ha_connection_time, now, last_reading,
           triggers, redraws>>

\* The record's cache is as its constructor left it.
AsConstructed(n) == ~has_state[n] /\ value[n] = initial_val(n)

\* BaseSensor::set_sensor, as SENSOR_INIT_ALL() calls it once per record.
set_sensor(n) ==
  /\ ~sensor[n]
  /\ sensor' = [sensor EXCEPT ![n] = TRUE]
  /\ ret' = NoRet
  /\ hist' = <<>>
  /\ fresh' = AsConstructed(n)
  /\ drift' = "none"
  /\ UNCHANGED <<list, has_state, value, src, coord>>

\* What the publication of v means for the baseline of record n: a step of
\* a numeric-threshold sensor (wired, source and cache available, no
\* sentinel involved) to another value within the threshold of the previous
\* one, made while the cached value was the previous value ("refreshed":
\* update() ran after the previous step) or was another value within the
\* threshold of it ("kept": a call before this step would have returned
\* false and kept the baseline); "none" for every other publication.
StepOf(n, v) ==
  IF /\ Kind(n) = "ThresholdSensor"
     /\ sensor[n] /\ src[n].has_state /\ has_state[n]
     /\ value[n] # FLT_MAX /\ src[n].state # FLT_MAX /\ v # FLT_MAX
     /\ v # src[n].state
     /\ Abs(v - src[n].state) <= threshold(n)
    THEN IF value[n] = src[n].state
           THEN "refreshed"
           ELSE IF Abs(src[n].state - value[n]) <= threshold(n)
                  THEN "kept"
                  ELSE "none"
    ELSE "none"

\* The host publishes (or invalidates) the state of the ESPHome sensor object.
\* The record's methods read state only while has_state() holds, so an
\* invalidated source carries the value-initialised state.
SourceChange(n) ==
  /\ \/ \E v \in Values(n) :
          /\ src' = [src EXCEPT ![n] = [has_state |-> TRUE, state |-> v]]
          /\ drift' = StepOf(n, v)
     \/ /\ src' = [src EXCEPT ![n] = [has_state |-> FALSE, state |-> DefaultValue(n)]]
        /\ drift' = "none"
  /\ ret' = NoRet
  /\ hist' = <<>>
  /\ fresh' = AsConstructed(n)
  /\ UNCHANGED <<list, sensor, has_state, value, coord>>

\* A call of update() on record n.
Call_update(n) ==
  /\ Len(hist) < MaxHist
  /\ has_state' = [has_state EXCEPT ![n] = update(n).has_state]
  /\ value' = [value EXCEPT ![n] = update(n).value]
  /\ ret' = [op |-> "update", name |-> n, result |-> FALSE,
             old_has_state |-> has_state[n], old_value |-> value[n],
             old_globals |-> Globals]
  /\ hist' = Append(hist, "R")
  /\ UNCHANGED <<list, sensor, src, coord, fresh, drift>>

\* A call of should_trigger_update() on record n.
Call_should_trigger_update(n) ==
  /\ Len(hist) < MaxHist
  /\ value' = [value EXCEPT ![n] = should_trigger_update(n).value]
  /\ ret' = [op |-> "should_trigger_update", name |-> n,
             result |-> should_trigger_update(n).result,
             old_has_state |-> has_state[n], old_value |-> value[n],
             old_globals |-> Globals]
  /\ hist' = Append(hist, IF should_trigger_update(n).result THEN "T" ELSE "F")
  /\ UNCHANGED <<list, sensor, has_state, src, coord, fresh, drift>>

Next ==
  \/ \E n \in Range(list) : set_sensor(n)
  \/ \E n \in Range(list) : SourceChange(n)
  \/ \E n \in Range(list) : Call_update(n)
  \/ \E n \in Range(list) : Call_should_trigger_update(n)

Spec == Init /\ [][Next]_vars

(***************************************************************************)
(* The registry: two records A and B, constructed in this order, and the   *)
(* static methods of ISensor that walk the list.                           *)
(***************************************************************************)
InitRegistry ==
  /\ \E a \in Sensors, b \in Sensors : a # b /\ list = <<a, b>>
  /\ InitRecords

\* A call of ISensor::update_all().
Call_update_all ==
  /\ has_state' = update_all.has_state
  /\ value' = update_all.value
  /\ ret' = [op |-> "update_all", name |-> "", result |-> update_all.visited,
             old_has_state |-> has_state, old_value |-> value,
             old_globals |-> Globals]
  /\ UNCHANGED <<list, sensor, src, coord, hist, fresh, drift>>

\* A call of ISensor::check_all_for_changes().
Call_check_all_for_changes ==
  /\ value' = check_all_for_changes.value
  /\ ret' = [op |-> "check_all_for_changes", name |-> check_all_for_changes.name,
             result |-> check_all_for_changes.result,
             old_has_state |-> has_state, old_value |-> value,
             old_globals |-> Globals]
  /\ UNCHANGED <<list, sensor, has_state, src, coord, hist, fresh, drift>>

NextRegistry ==
  \/ \E n \in Range(list) : set_sensor(n)
  \/ \E n \in Range(list) : SourceChange(n)
  \/ Call_update_all
  \/ Call_check_all_for_changes

SpecRegistry == InitRegistry /\ [][NextRegistry]_vars

(***************************************************************************)
(* Static construction: the sensor objects are constructed one after the   *)
(* other, each constructor linking its record into the list.               *)
(***************************************************************************)
InitEmpty ==
  /\ list = <<>>
  /\ InitRecords

\* Mutant: the new record is linked in front of the head.
ISensor_linked_at_head(l, n) == <<n>> \o l

\* ISensor::ISensor on record n with the chain l: the chain it leaves.
ISensor(l, n) == IF Len(l) = 0 THEN <<n>> ELSE Append(l, n)

\* The construction of the (static) sensor object n.
Construct(n) ==
  /\ n \notin Range(list)
  /\ list' = ISensor(list, n)
  /\ ret' = [op |-> "ISensor", name |-> n, result |-> FALSE,
             old_has_state |-> has_state, old_value |-> value,
             old_globals |-> Globals]
  /\ UNCHANGED <<sensor, has_state, value, src, coord, hist, fresh, drift>>

\* A call of ISensor::get_ha_entity_list().
Call_get_ha_entity_list ==
  /\ ret' = [op |-> "get_ha_entity_list", name |-> "",
             result |-> get_ha_entity_list,
             old_has_state |-> has_state, old_value |-> value,
             old_globals |-> Globals]
  /\ UNCHANGED <<list, sensor, has_state, value, src, coord, hist, fresh, drift>>

NextConstruct ==
  \/ \E n \in Sensors : Construct(n)
  \/ Call_update_all
  \/ Call_get_ha_entity_list

SpecConstruct == InitEmpty /\ [][NextConstruct]_vars

(***************************************************************************)
(* The refresh decision: the on_value callback of a sensor, the poll and   *)
(* forced-refresh ticks and the consumer of the redraw latch.              *)
(***************************************************************************)
Min(a, b) == IF a < b THEN a ELSE b

\* Bookkeeping of a trigger: a significant trigger after the redraw of the
\* previous period opens a new period.
NoteTrigger(significant) ==
  IF significant
    THEN IF redraws > 0
           THEN triggers' = 1 /\ redraws' = 0
           ELSE triggers' = Min(triggers + 1, MaxTriggers) /\ UNCHANGED redraws
    ELSE UNCHANGED <<triggers, redraws>>

\* Mutant: the callback does not set the latch.
SENSOR_UPDATE_CALLBACK_latch_not_set(n) ==
  /\ src[n].has_state
  /\ last_ha_connection_time' = now
  /\ ha_connected' = TRUE
  /\ last_reading' = now
  /\ IF data_updated
       THEN UNCHANGED value
       ELSE value' = [value EXCEPT ![n] = should_trigger_update(n).value]
  /\ UNCHANGED data_updated
  /\ NoteTrigger(should_trigger_update(n).result)
  /\ ret' = [op |-> "SENSOR_UPDATE_CALLBACK", name |-> n,
             result |-> ~data_updated /\ should_trigger_update(n).result,
             old_has_state |-> has_state[n], old_value |-> value[n],
             old_globals |-> Globals]
  /\ UNCHANGED <<list, sensor, has_state, src, now, hist, fresh, drift>>

\* Mutant: no early return on a pending latch, and the latch is assigned the
\* result of the check.
SENSOR_UPDATE_CALLBACK_latch_overwritten(n) ==
  /\ src[n].has_state
  /\ last_ha_connection_time' = now
  /\ ha_connected' = TRUE
  /\ last_reading' = now
  /\ value' = [value EXCEPT ![n] = should_trigger_update(n).value]
  /\ data_updated' = should_trigger_update(n).result
  /\ NoteTrigger(should_trigger_update(n).result)
  /\ ret' = [op |-> "SENSOR_UPDATE_CALLBACK", name |-> n,
             result |-> should_trigger_update(n).result,
             old_has_state |-> has_state[n], old_value |-> value[n],
             old_globals |-> Globals]
  /\ UNCHANGED <<list, sensor, has_state, src, now, hist, fresh, drift>>

\* Mutant: the callback does not mark the connection as up.
SENSOR_UPDATE_CALLBACK_connection_not_marked(n) ==
  /\ src[n].has_state
  /\ last_ha_connection_time' = now
  /\ UNCHANGED ha_connected
  /\ last_reading' = now
  /\ IF data_updated
       THEN UNCHANGED <<data_updated, value>>
       ELSE /\ value' = [value EXCEPT ![n] = should_trigger_update(n).value]
            /\ data_updated' = should_trigger_update(n).result
  /\ NoteTrigger(should_trigger_update(n).result)
  /\ ret' = [op |-> "SENSOR_UPDATE_CALLBACK", name |-> n,
             result |-> ~data_updated /\ should_trigger_update(n).result,
             old_has_state |-> has_state[n], old_value |-> value[n],
             old_globals |-> Globals]
  /\ UNCHANGED <<list, sensor, has_state, src, now, hist, fresh, drift>>

\* Mutant: the callback does not store the time of the reading.
SENSOR_UPDATE_CALLBACK_time_not_stored(n) ==
  /\ src[n].has_state
  /\ UNCHANGED last_ha_connection_time
  /\ ha_connected' = TRUE
  /\ last_reading' = now
  /\ IF data_updated
       THEN UNCHANGED <<data_updated, value>>
       ELSE /\ value' = [value EXCEPT ![n] = should_trigger_update(n).value]
            /\ data_updated' = should_trigger_update(n).result
  /\ NoteTrigger(should_trigger_update(n).result)
  /\ ret' = [op |-> "SENSOR_UPDATE_CALLBACK", name |-> n,
             result |-> ~data_updated /\ should_trigger_update(n).result,
             old_has_state |-> has_state[n], old_value |-> value[n],
             old_globals |-> Globals]
  /\ UNCHANGED <<list, sensor, has_state, src, now, hist, fresh, drift>>

\* SENSOR_UPDATE_CALLBACK(sensor_var), the on_value lambda of the source of
\* record n: it runs on a published state.
SENSOR_UPDATE_CALLBACK(n) ==
  /\ src[n].has_state
  /\ last_ha_connection_time' = now
  /\ ha_connected' = TRUE
  /\ last_reading' = now
  /\ IF data_updated
       THEN UNCHANGED <<data_updated, value>>
       ELSE /\ value' = [value EXCEPT ![n] = should_trigger_update(n).value]
            /\ data_updated' = should_trigger_update(n).result
  /\ NoteTrigger(should_trigger_update(n).result)
  /\ ret' = [op |-> "SENSOR_UPDATE_CALLBACK", name |-> n,
             result |-> ~data_updated /\ should_trigger_update(n).result,
             old_has_state |-> has_state[n], old_value |-> value[n],
             old_globals |-> Globals]
  /\ UNCHANGED <<list, sensor, has_state, src, now, hist, fresh, drift>>

\* The poll tick: any_significant_change() sets the latch.
Poll ==
  /\ value' = check_all_for_changes.value
  /\ data_updated' = (data_updated \/ check_all_for_changes.result)
  /\ NoteTrigger(check_all_for_changes.result)
  /\ ret' = [op |-> "poll", name |-> check_all_for_changes.name,
             result |-> check_all_for_changes.result,
             old_has_state |-> has_state, old_value |-> value,
             old_globals |-> Globals]
  /\ UNCHANGED <<list, sensor, has_state, src, ha_connected,
                 last_ha_connection_time, now, last_reading, hist, fresh, drift>>

\* Mutant: the forced-refresh tick sets the latch only on a significant change.
ForcedRefresh_only_on_change ==
  /\ data_updated' = (data_updated \/ check_all_for_changes.result)
  /\ NoteTrigger(check_all_for_changes.result)
  /\ ret' = [op |-> "forced_refresh", name |-> "", result |-> TRUE,
             old_has_state |-> has_state, old_value |-> value,
             old_globals |-> Globals]
  /\ UNCHANGED <<list, sensor, has_state, value, src, ha_connected,
                 last_ha_connection_time, now, last_reading, hist, fresh, drift>>

\* The forced-refresh tick sets the latch whatever the sensors say.
ForcedRefresh ==
  /\ data_updated' = TRUE
  /\ NoteTrigger(TRUE)
  /\ ret' = [op |-> "forced_refresh", name |-> "", result |-> TRUE,
             old_has_state |-> has_state, old_value |-> value,
             old_globals |-> Globals]
  /\ UNCHANGED <<list, sensor, has_state, value, src, ha_connected,
                 last_ha_connection_time, now, last_reading, hist, fresh, drift>>

\* consume_redraw_decision(): returns the latch and clears it.
consume_redraw_decision ==
  /\ data_updated' = FALSE
  /\ redraws' = IF data_updated THEN Min(redraws + 1, 2) ELSE redraws
  /\ ret' = [op |-> "consume_redraw_decision", name |-> "", result |-> data_updated,
             old_has_state |-> has_state, old_value |-> value,
             old_globals |-> Globals]
  /\ UNCHANGED <<list, sensor, has_state, value, src, ha_connected,
                 last_ha_connection_time, now, last_reading, triggers, hist, fresh, drift>>

\* Time passes.
Tick ==
  /\ now < MaxTime
  /\ now' = now + 1
  /\ UNCHANGED <<list, sensor, has_state, value, src, data_updated, ha_connected,
                 last_ha_connection_time, last_reading, ret, hist, fresh, drift, triggers,
                 redraws>>

\* check_timeout(now, timeout_window): the connection-timeout tick.
check_timeout(window) ==
  /\ ha_connected' = IF ha_connected /\ now - last_ha_connection_time >= window
                       THEN FALSE ELSE ha_connected
  /\ ret' = [op |-> "check_timeout", name |-> "", result |-> FALSE,
             old_has_state |-> has_state, old_value |-> value,
             old_globals |-> Globals]
  /\ UNCHANGED <<list, sensor, has_state, value, src, data_updated,
                 last_ha_connection_time, now, last_reading, hist, fresh, drift, triggers,
                 redraws>>

NextCoord ==
  \/ \E n \in Range(list) : set_sensor(n)
  \/ \E n \in Range(list) : SourceChange(n)
  \/ \E n \in Range(list) : SENSOR_UPDATE_CALLBACK(n)
  \/ Poll
  \/ ForcedRefresh
  \/ consume_redraw_decision
  \/ Call_update_all
  \/ check_timeout(timeout_window)
  \/ Tick

SpecCoord == Init /\ [][NextCoord]_vars

(***************************************************************************)
(* Properties of a single record (specification Spec).                     *)
(***************************************************************************)

\* The last call was should_trigger_update() on record n.  The source and
\* the wiring of n are as they were at the call: a publication or a
\* set_sensor() clears ret.
Called(n) == ret.op = "should_trigger_update" /\ ret.name = n

\* The last call was update() on record n.
Refreshed(n) == ret.op = "update" /\ ret.name = n

IsCall(e) == e \in {"T", "F"}

\* C1: for every kind with a wired source, a call made while the source's
\* availability differs from the cached availability returns true, whatever
\* the values, the threshold and the ignored value.
C1_AvailabilityFlipIsSignificant ==
  \A n \in Sensors :
    (Called(n) /\ sensor[n] /\ src[n].has_state # ret.old_has_state) => ret.result

\* C1 witness: an unavailable -> available flip with the value unchanged.
C1_Witness ==
  \E n \in Sensors :
    /\ Called(n) /\ sensor[n]
    /\ ~ret.old_has_state /\ src[n].has_state
    /\ src[n].state = ret.old_value
    /\ ret.result

\* C2 as stated: for every kind, a call that returns true has updated the
\* cache, so that the call repeated at once (no publication, no update())
\* returns false.  BaseSensor::should_trigger_update returns true on an
\* availability flip, and StateSensor and FilteredTextStateSensor on a value
\* change, without storing anything: the repeated call returns true again.
C2_DebounceEveryKind ==
  \A k \in 1..(Len(hist) - 1) :
    (hist[k] = "T" /\ IsCall(hist[k + 1])) => hist[k + 1] = "F"

\* The record is a numeric-threshold sensor that was as constructed (cache
\* at the sentinel, cached availability false) when its wired source
\* published the value it still has.
Bootstrapping(n) ==
  /\ Kind(n) = "ThresholdSensor"
  /\ n \in Range(list)
  /\ fresh
  /\ sensor[n]
  /\ src[n].has_state

\* C3 as stated: in the calls made after the source became available, the
\* first returns true and every later one returns false, with or without
\* update() between them.  The first true comes from the availability
\* branch, which leaves _has_state false: without update() every repeated
\* call returns true.
C3_TrueExactlyOnce ==
  \A n \in Sensors :
    (Bootstrapping(n) /\ Len(hist) >= 1 /\ IsCall(hist[1]))
    => /\ hist[1] = "T"
       /\ \A j \in 2..Len(hist) : hist[j] # "T"

\* C4: for a numeric-threshold sensor with source and cache available and a
\* cached value v that is not the sentinel, the call returns true iff
\* |current - v| > threshold, and a true result stores current.
C4_ThresholdBoundary ==
  \A n \in Sensors :
    ( /\ Kind(n) = "ThresholdSensor"
      /\ Called(n) /\ sensor[n]
      /\ src[n].has_state /\ ret.old_has_state
      /\ ret.old_value # FLT_MAX )
    => /\ ret.result <=> Abs(src[n].state - ret.old_value) > threshold(n)
       /\ ret.result => value[n] = src[n].state
       /\ ~ret.result => value[n] = ret.old_value

\* C4 witness: a move of exactly the threshold is not significant.
C4_Witness ==
  \E n \in Sensors :
    /\ Kind(n) = "ThresholdSensor"
    /\ Called(n) /\ sensor[n]
    /\ src[n].has_state /\ ret.old_has_state
    /\ ret.old_value # FLT_MAX
    /\ Abs(src[n].state - ret.old_value) = threshold(n)
    /\ ~ret.result

\* C5 as stated: a passive sensor's call returns false for every source
\* value, source availability and cached state.
C5_PassiveNeverTriggers ==
  \A n \in Sensors :
    (Called(n) /\ Kind(n) = "PassiveSensor") => ~ret.result

\* C6: filtered-text sensor, availability steady, ignored value
\* "unavailable".  While source and cache are each "Charging" or
\* "unavailable" (every state the glitch Charging -> unavailable ->
\* Charging passes through, with or without update() in between) the call
\* returns false; with cache "Charging" and source "Idle" it returns true.
C6_GlitchAbsorbed ==
  \A n \in Sensors :
    ( /\ Kind(n) = "FilteredTextStateSensor"
      /\ ignored_value(n) = "unavailable"
      /\ Called(n) /\ sensor[n]
      /\ src[n].has_state /\ ret.old_has_state )
    => /\ ( /\ ret.old_value \in {"Charging", "unavailable"}
            /\ src[n].state \in {"Charging", "unavailable"} ) => ~ret.result
       /\ (ret.old_value = "Charging" /\ src[n].state = "Idle") => ret.result

\* C6 witness: the source is back at "Charging" after update() cached the
\* glitch value, and the call returns false.
C6_Witness ==
  \E n \in Sensors :
    /\ Kind(n) = "FilteredTextStateSensor"
    /\ Called(n) /\ sensor[n]
    /\ src[n].has_state /\ ret.old_has_state
    /\ ret.old_value = "unavailable"
    /\ src[n].state = "Charging"
    /\ ~ret.result

\* C7: filtered-text sensor with source and cache available: the call
\* returns true iff current and cached value differ and neither is the
\* ignored value.
C7_FilteredTextRule ==
  \A n \in Sensors :
    ( /\ Kind(n) = "FilteredTextStateSensor"
      /\ Called(n) /\ sensor[n]
      /\ src[n].has_state /\ ret.old_has_state )
    => ( ret.result <=> /\ src[n].state # ret.old_value
                        /\ src[n].state # ignored_value(n)
                        /\ ret.old_value # ignored_value(n) )

\* C7 witness: a transition into the ignored value is reported as not
\* significant.
C7_Witness ==
  \E n \in Sensors :
    /\ Kind(n) = "FilteredTextStateSensor"
    /\ Called(n) /\ sensor[n]
    /\ src[n].has_state /\ ret.old_has_state
    /\ ret.old_value = "Idle"
    /\ src[n].state = ignored_value(n)
    /\ ~ret.result

\* C8: raw-state sensor (boolean or text) with source and cache available:
\* the call returns true iff the current value is not the cached value.
C8_RawStateRule ==
  \A n \in Sensors :
    ( /\ Kind(n) = "StateSensor"
      /\ Called(n) /\ sensor[n]
      /\ src[n].has_state /\ ret.old_has_state )
    => (ret.result <=> src[n].state # ret.old_value)

\* C8 witness: a text sensor whose value changed.
C8_Witness ==
  \E n \in Sensors :
    /\ Kind(n) = "StateSensor" /\ ValueType(n) = "string"
    /\ Called(n) /\ sensor[n]
    /\ src[n].has_state /\ ret.old_has_state
    /\ src[n].state # ret.old_value
    /\ ret.result

\* C18: update() on a record with a wired source sets the cached
\* availability to the source's availability; with the source available it
\* sets the cached value to the source's value, for every kind and whatever
\* the threshold or the ignored value; with the source unavailable it leaves
\* the cached value unchanged.
C18_RefreshSyncsCache ==
  \A n \in Sensors :
    (Refreshed(n) /\ sensor[n])
    => /\ has_state[n] = src[n].has_state
       /\ src[n].has_state => value[n] = src[n].state
       /\ ~src[n].has_state => value[n] = ret.old_value

\* C18 witness: update() stored a new value in the passive sensor.
C18_Witness ==
  \E n \in Sensors :
    /\ Refreshed(n) /\ sensor[n]
    /\ Kind(n) = "PassiveSensor"
    /\ src[n].has_state /\ ret.old_has_state
    /\ ret.old_value # src[n].state
    /\ value[n] = src[n].state

\* C19: on a record whose source was never wired, update() changes neither
\* the cached value nor the cached availability, and
\* should_trigger_update() returns false and changes neither, for every kind
\* and whatever the source object holds; the cached availability is false.
C19_NullSourceIsNoOp ==
  \A n \in Sensors :
    ((Refreshed(n) \/ Called(n)) /\ ~sensor[n])
    => /\ value[n] = ret.old_value
       /\ has_state[n] = ret.old_has_state
       /\ ~has_state[n]
       /\ ~ret.result

\* C19 witness: the source object holds a value, the record is not wired to
\* it, and the call on the numeric-threshold sensor (cache at the sentinel)
\* returned false.
C19_Witness ==
  \E n \in Sensors :
    /\ Called(n) /\ ~sensor[n]
    /\ Kind(n) = "ThresholdSensor"
    /\ src[n].has_state
    /\ value[n] = FLT_MAX
    /\ ~ret.result

\* C20: whenever should_trigger_update() returns false, for every kind, the
\* cached value and the cached availability are what they were before the
\* call.
C20_FalseLeavesCache ==
  \A n \in Sensors :
    (Called(n) /\ ~ret.result)
    => /\ value[n] = ret.old_value
       /\ has_state[n] = ret.old_has_state

\* C20 witness: a numeric move within the threshold: false, and the baseline
\* is kept although the source holds another value.
C20_Witness ==
  \E n \in Sensors :
    /\ Called(n) /\ sensor[n]
    /\ Kind(n) = "ThresholdSensor"
    /\ src[n].has_state /\ ret.old_has_state
    /\ src[n].state # ret.old_value
    /\ ~ret.result
    /\ value[n] = ret.old_value

\* C22: while the source of a record is unavailable and the cached
\* availability is false (the source was never available, or never refreshed
\* while available), should_trigger_update() returns false for every kind,
\* the numeric-threshold sensor with its cache at the sentinel included.
C22_NeverAvailableIsQuiet ==
  \A n \in Sensors :
    (Called(n) /\ ~src[n].has_state /\ ~ret.old_has_state) => ~ret.result

\* C22 witness: the wired numeric-threshold sensor, as constructed, with a
\* source that has no state.
C22_Witness ==
  \E n \in Sensors :
    /\ Called(n) /\ sensor[n]
    /\ Kind(n) = "ThresholdSensor"
    /\ fresh
    /\ ~src[n].has_state /\ ~ret.old_has_state
    /\ ret.old_value = FLT_MAX
    /\ ~ret.result

\* The call found the source's availability different from the cached one.
Flipped(n) == src[n].has_state # ret.old_has_state

\* C25: should_trigger_update() never changes the cached availability; it
\* changes the cached value only for a numeric-threshold sensor, on a true
\* result of the value rule (bootstrap or threshold exceeded), and then to
\* the current value.  For the other kinds and for every availability flip a
\* true result leaves the cache as it was, so the call repeated with no
\* update() in between returns true again.
C25_OnlyRefreshSyncs ==
  \A n \in Sensors :
    /\ Called(n) =>
         /\ has_state[n] = ret.old_has_state
         /\ value[n] # ret.old_value =>
              /\ Kind(n) = "ThresholdSensor"
              /\ ret.result
              /\ sensor[n] /\ src[n].has_state /\ ~Flipped(n)
              /\ ret.old_value = FLT_MAX
                   \/ Abs(src[n].state - ret.old_value) > threshold(n)
              /\ value[n] = src[n].state
         /\ (ret.result /\ (Kind(n) # "ThresholdSensor" \/ Flipped(n))) =>
              /\ value[n] = ret.old_value
              /\ should_trigger_update(n).result
    /\ ( /\ n \in Range(list)
         /\ Kind(n) # "ThresholdSensor" \/ src[n].has_state # has_state[n] )
       => \A j \in 1..Len(hist) : \A k \in (j + 1)..Len(hist) :
            ( /\ hist[j] = "T"
              /\ \A i \in j..k : hist[i] # "R" )
            => hist[k] = "T"

\* C25 witness: a raw-state sensor whose value changed is reported three
\* times in a row, its cache still holding the old value.
C25_Witness ==
  \E n \in Sensors :
    /\ Called(n) /\ sensor[n]
    /\ Kind(n) = "StateSensor"
    /\ src[n].has_state /\ ret.old_has_state
    /\ hist = <<"T", "T", "T">>
    /\ value[n] = ret.old_value
    /\ value[n] # src[n].state

\* C26: the cached value of a numeric-threshold sensor is changed only by
\* update() with the source available and by a true result of the value
\* rule (availability steady), each storing the current value; a false
\* result keeps it.  After a step within the threshold made on a kept
\* baseline, the call returns true iff the current value is further than the
\* threshold from the baseline; after such a step made on a baseline that
\* update() had moved to the previous value, the call returns false.
C26_ThresholdBaseline ==
  /\ [][ \A n \in Sensors :
           (Kind(n) = "ThresholdSensor" /\ value'[n] # value[n])
           => /\ ret'.name = n
              /\ src[n].has_state
              /\ value'[n] = src[n].state
              /\ \/ ret'.op = "update"
                 \/ /\ ret'.op = "should_trigger_update"
                    /\ ret'.result
                    /\ has_state[n] = src[n].has_state ]_vars
  /\ [](\A n \in Sensors :
          (Kind(n) = "ThresholdSensor" /\ Called(n))
          => /\ ~ret.result => value[n] = ret.old_value
             /\ drift = "kept" =>
                  (ret.result <=>
                     Abs(src[n].state - ret.old_value) > threshold(n))
             /\ drift = "refreshed" => ~ret.result)

\* C26 witness: the source moved twice by no more than the threshold with
\* no update() in between; the second value is further than the threshold
\* from the baseline and the call reported it and took it as the baseline.
C26_Witness ==
  \E n \in Sensors :
    /\ Kind(n) = "ThresholdSensor"
    /\ Called(n)
    /\ drift = "kept"
    /\ hist = <<"T">>
    /\ Abs(src[n].state - ret.old_value) > threshold(n)
    /\ value[n] = src[n].state

\* C27: a filtered-text sensor with steady availability whose cached value
\* is the ignored value (a refresh during a glitch) returns false for every
\* source value and keeps the ignored value cached; the cached ignored value
\* is replaced only by update().
C27_RefreshDuringGlitchMasks ==
  /\ [](\A n \in Sensors :
          ( /\ Kind(n) = "FilteredTextStateSensor"
            /\ Called(n) /\ sensor[n]
            /\ src[n].has_state /\ ret.old_has_state
            /\ ret.old_value = ignored_value(n) )
          => /\ ~ret.result
             /\ value[n] = ignored_value(n))
  /\ [][ \A n \in Sensors :
           ( /\ Kind(n) = "FilteredTextStateSensor"
             /\ value[n] = ignored_value(n)
             /\ value'[n] # ignored_value(n) )
           => ret'.op = "update" /\ ret'.name = n ]_vars

\* C27 witness: update() cached the ignored value during the glitch, the
\* source then went to "Idle", and two calls in a row returned false.
C27_Witness ==
  \E n \in Sensors :
    /\ Kind(n) = "FilteredTextStateSensor"
    /\ Called(n) /\ sensor[n]
    /\ src[n].has_state /\ ret.old_has_state
    /\ ret.old_value = ignored_value(n)
    /\ src[n].state = "Idle"
    /\ hist = <<"F", "F">>

(***************************************************************************)
(* Properties of the refresh decision (specification SpecCoord).           *)
(***************************************************************************)

\* C9: once two or more significant triggers (push notifications, poll hits,
\* forced-refresh ticks) have been delivered in a redraw period,
\* consume_redraw_decision() has returned true at most once in the period,
\* and after any call of it in the period it has returned true exactly once
\* and the latch is clear, so a further call returns false.
C9_Coalescing ==
  triggers >= 2 =>
    /\ redraws <= 1
    /\ ret.op = "consume_redraw_decision" => (redraws = 1 /\ ~data_updated)
    /\ redraws = 0 => data_updated

\* C9 witness: after two triggers and the redraw, a further call returned
\* false.
C9_Witness ==
  /\ triggers >= 2
  /\ redraws = 1
  /\ ret.op = "consume_redraw_decision"
  /\ ~ret.result

\* The last step was a poll tick that found the latch IDLE and the wired,
\* non-passive record n with the cache of the last refresh_all() (what was
\* last drawn).
PolledIdle(n) ==
  /\ ret.op = "poll"
  /\ ~ret.old_globals.data_updated
  /\ n \in Range(list)
  /\ sensor[n]
  /\ Kind(n) # "PassiveSensor"

AvailabilityFlipped(n) == src[n].has_state # ret.old_has_state[n]

BothAvailable(n) == src[n].has_state /\ ret.old_has_state[n]

\* C12 as stated: a poll tick with the latch IDLE returns true and makes the
\* latch PENDING when the source of a non-passive sensor differs from what was
\* last drawn by a changed raw-state or filtered-text value, a numeric move
\* beyond the threshold or an availability flip.
C12_Original_PollCatchesEveryChange ==
  \A n \in Sensors :
    ( /\ PolledIdle(n)
      /\ \/ AvailabilityFlipped(n)
         \/ /\ BothAvailable(n)
            /\ Kind(n) \in {"StateSensor", "FilteredTextStateSensor"}
            /\ src[n].state # ret.old_value[n]
         \/ /\ BothAvailable(n)
            /\ Kind(n) = "ThresholdSensor"
            /\ Abs(src[n].state - ret.old_value[n]) > threshold(n) )
    => ret.result /\ data_updated

\* C12 amended: the same, except that a changed filtered-text value counts
\* only when neither the cached nor the current value is the ignored value.
C12_PollCatchesSignificantChange ==
  \A n \in Sensors :
    ( /\ PolledIdle(n)
      /\ \/ AvailabilityFlipped(n)
         \/ /\ BothAvailable(n)
            /\ Kind(n) = "StateSensor"
            /\ src[n].state # ret.old_value[n]
         \/ /\ BothAvailable(n)
            /\ Kind(n) = "FilteredTextStateSensor"
            /\ src[n].state # ret.old_value[n]
            /\ src[n].state # ignored_value(n)
            /\ ret.old_value[n] # ignored_value(n)
         \/ /\ BothAvailable(n)
            /\ Kind(n) = "ThresholdSensor"
            /\ Abs(src[n].state - ret.old_value[n]) > threshold(n) )
    => ret.result /\ data_updated

\* C12 witness: no push notification was last_reading, the latch was IDLE, and
\* the poll tick caught a filtered-text value that changed after the cache
\* was refreshed.
C12_Witness ==
  \E n \in Sensors :
    /\ PolledIdle(n)
    /\ last_reading < 0
    /\ BothAvailable(n)
    /\ Kind(n) = "FilteredTextStateSensor"
    /\ ret.old_value[n] = "Charging" /\ src[n].state = "Idle"
    /\ ret.result /\ data_updated

\* The last step was check_timeout(now, timeout_window), called this long
\* after the last accepted reading.
TimeoutChecked == ret.op = "check_timeout" /\ last_reading >= 0

ElapsedAtCheck == ret.old_globals.now - last_reading

\* C13: after a reading accepted at t0 and no later reading,
\* check_timeout(now, window) leaves connected true while now < t0 + window
\* (now = t0 + window - 1 included) and leaves it false from
\* now = t0 + window on; check_timeout never makes connected true.
C13_TimeoutBoundary ==
  /\ TimeoutChecked =>
       /\ ElapsedAtCheck < timeout_window => ha_connected
       /\ ElapsedAtCheck >= timeout_window => ~ha_connected
  /\ (ret.op = "check_timeout" /\ ~ret.old_globals.ha_connected) => ~ha_connected

\* C13 witness: the check made exactly one window after the reading flipped
\* connected to false.
C13_Witness ==
  /\ TimeoutChecked
  /\ ElapsedAtCheck = timeout_window
  /\ ret.old_globals.ha_connected
  /\ ~ha_connected

\* C14 as stated: in every reachable state connected is true iff a reading
\* has been accepted and now - last_seen_timestamp < timeout_window.
C14_Original_ConnectedIsProjection ==
  ha_connected <=> ( /\ last_reading >= 0
                     /\ now - last_ha_connection_time < timeout_window )

\* C14 amended: connected is true only if a reading has been accepted, and
\* it is true whenever a reading has been accepted and
\* now - last_seen_timestamp < timeout_window; once the window has elapsed
\* connected stays true until check_timeout() runs, so the equivalence with
\* now - last_seen_timestamp < timeout_window holds when check_timeout() has
\* just run.
C14_ConnectedUntilTimeoutCheck ==
  /\ ha_connected => last_reading >= 0
  /\ last_reading >= 0 => last_ha_connection_time = last_reading
  /\ (last_reading >= 0 /\ now - last_ha_connection_time < timeout_window)
       => ha_connected
  /\ (TimeoutChecked /\ ret.old_globals.now = now)
       => (ha_connected <=> now - last_ha_connection_time < timeout_window)

\* C14 witness: check_timeout() ran within the window, the window has
\* elapsed since, and connected is still true.
C14_Witness ==
  /\ TimeoutChecked
  /\ ElapsedAtCheck < timeout_window
  /\ now - last_ha_connection_time >= timeout_window
  /\ ha_connected

\* The last step was SENSOR_UPDATE_CALLBACK on record n.
Notified(n) == ret.op = "SENSOR_UPDATE_CALLBACK" /\ ret.name = n

\* C15: an accepted push notification, for any kind, leaves
\* last_seen_timestamp at the time of the notification and connected true,
\* whatever time has elapsed since the previous reading and whether or not
\* check_timeout() ran; a step that makes connected true is a push
\* notification and a step that makes it false is check_timeout().
C15_ReadingArrivalWins ==
  /\ [](\A n \in Sensors :
          Notified(n) => /\ last_ha_connection_time = ret.old_globals.now
                         /\ ha_connected)
  /\ [][ /\ (~ha_connected /\ ha_connected') => ret'.op = "SENSOR_UPDATE_CALLBACK"
         /\ (ha_connected /\ ~ha_connected') => ret'.op = "check_timeout" ]_vars

\* C15 witness: a notification of the passive sensor, arriving more than a
\* window after the previous reading and after check_timeout() had cleared
\* connected, made connected true again.
C15_Witness ==
  \E n \in Sensors :
    /\ Notified(n)
    /\ Kind(n) = "PassiveSensor"
    /\ ~ret.old_globals.ha_connected
    /\ ret.old_globals.now - ret.old_globals.last_ha_connection_time > timeout_window
    /\ last_ha_connection_time = ret.old_globals.now
    /\ ha_connected

\* C16: the latch starts IDLE and is IDLE as long as nothing has triggered;
\* consume_redraw_decision() returns true exactly when it finds the latch
\* PENDING and leaves it IDLE either way; a step that moves the latch from
\* PENDING to IDLE is consume_redraw_decision().
C16_LatchProtocol ==
  /\ ~data_updated
  /\ [](triggers = 0 => ~data_updated)
  /\ [](ret.op = "consume_redraw_decision"
          => /\ ret.result <=> ret.old_globals.data_updated
             /\ ~data_updated)
  /\ [][ (data_updated /\ ~data_updated')
           => ret'.op = "consume_redraw_decision" ]_vars

\* C16 witness: consume_redraw_decision() found the latch PENDING, returned
\* true and left it IDLE.
C16_Witness ==
  /\ ret.op = "consume_redraw_decision"
  /\ ret.old_globals.data_updated
  /\ ret.result
  /\ ~data_updated

\* C17: after a forced-refresh tick the latch is PENDING, whether the tick
\* found it IDLE or PENDING and whether or not a sensor reports a
\* significant change.
C17_ForcedRefreshSetsLatch ==
  ret.op = "forced_refresh" => data_updated

\* C17 witness: the tick found the latch IDLE and no sensor with a
\* significant change, and left the latch PENDING.
C17_Witness ==
  /\ ret.op = "forced_refresh"
  /\ ~ret.old_globals.data_updated
  /\ \A n \in Range(list) : sensor[n] /\ src[n].has_state
  /\ ~check_all_for_changes.result
  /\ data_updated

\* C24: a push notification that finds the latch PENDING stores the time
\* and sets connected, and returns before should_trigger_update(): the
\* notifying sensor's cached value and availability are unchanged and the
\* latch is still PENDING.
C24_PushWhilePending ==
  \A n \in Sensors :
    (Notified(n) /\ ret.old_globals.data_updated)
    => /\ last_ha_connection_time = ret.old_globals.now
       /\ ha_connected
       /\ value[n] = ret.old_value
       /\ has_state[n] = ret.old_has_state
       /\ ~ret.result
       /\ data_updated

\* C24 witness: the numeric-threshold sensor moved beyond its threshold; the
\* notification found the latch PENDING and the baseline was not moved.
C24_Witness ==
  \E n \in Sensors :
    /\ Notified(n) /\ ret.old_globals.data_updated
    /\ Kind(n) = "ThresholdSensor"
    /\ sensor[n] /\ has_state[n] /\ src[n].has_state
    /\ value[n] # FLT_MAX
    /\ Abs(src[n].state - value[n]) > threshold(n)
    /\ value[n] = ret.old_value
    /\ data_updated

(***************************************************************************)
(* Properties of the registry (specification SpecRegistry).                *)
(***************************************************************************)

\* Record n had a significant change pending when the last registry call
\* was made (ret holds the cache the call found).
WasPending(n) ==
  BaseSensor_should_trigger_update(n, ret.old_has_state[n], ret.old_value[n]).result

\* update() on record n would change nothing: its cache agrees with its source.
InLineWithSource(n) ==
  /\ has_state[n] = src[n].has_state
  /\ src[n].has_state => value[n] = src[n].state

\* C10 as stated: with a change pending on A (registered first) and on B,
\* check_all_for_changes() returns true and A's cache is updated, and the
\* next call does not return false.  The pass returns true at A, but A's
\* cache is stored only by the numeric-threshold value rule: for any other
\* kind, and on an availability flip, A stays out of line with its source.
C10_FirstCacheUpdated ==
  (ret.op = "check_all_for_changes" /\ WasPending(list[1]) /\ WasPending(list[2]))
  => /\ ret.result
     /\ InLineWithSource(list[1])
     /\ check_all_for_changes.result

\* Position of the record the last pass stopped at (0: it reached the end).
StoppedAt == IF ret.name = "" THEN 0
             ELSE CHOOSE i \in 1..Len(list) : list[i] = ret.name

\* C11: check_all_for_changes() returns true iff at least one registered
\* record had a significant change pending; the pass stops at the first such
\* record in registration order, and the cached value and availability of
\* every record registered after it are what they were before the pass.
C11_ShortCircuitFrame ==
  ret.op = "check_all_for_changes"
  => /\ ret.result <=> \E i \in 1..Len(list) : WasPending(list[i])
     /\ ret.result <=> StoppedAt > 0
     /\ ret.result =>
          /\ WasPending(list[StoppedAt])
          /\ \A j \in 1..(StoppedAt - 1) : ~WasPending(list[j])
          /\ \A j \in (StoppedAt + 1)..Len(list) :
               /\ value[list[j]] = ret.old_value[list[j]]
               /\ has_state[list[j]] = ret.old_has_state[list[j]]

\* C11 witness: only B (registered second) had a change pending; the pass
\* went past A and stopped at B.
C11_Witness ==
  /\ ret.op = "check_all_for_changes"
  /\ ~WasPending(list[1]) /\ WasPending(list[2])
  /\ sensor[list[1]] /\ src[list[1]].has_state
  /\ ret.result
  /\ ret.name = list[2]

(***************************************************************************)
(* Properties of construction and of the list walks (specification         *)
(* SpecConstruct).                                                         *)
(***************************************************************************)

\* The positions of the commas of the character string s.
Commas(s) == {i \in 1..Len(s) : s[i] = ","}

\* The position of the k-th comma of s.
Comma(s, k) ==
  CHOOSE p \in Commas(s) : Cardinality({q \in Commas(s) : q < p}) = k - 1

\* The comma-separated fields of s (one more than it has commas); the empty
\* string has none.
Fields(s) ==
  IF Len(s) = 0 THEN <<>>
  ELSE [k \in 1..(Cardinality(Commas(s)) + 1) |->
          SubSeq(s,
                 IF k = 1 THEN 1 ELSE Comma(s, k - 1) + 1,
                 IF k = Cardinality(Commas(s)) + 1 THEN Len(s)
                                                   ELSE Comma(s, k) - 1)]

\* The identifier of record n denotes a Home Assistant entity.
HasDot(n) == \E i \in 1..Len(entity_id(n)) : entity_id(n)[i] = "."

\* The registered records with such an identifier, in registration order.
PolledRecords == SelectSeq(list, HasDot)

\* C21: get_ha_entity_list() returns the identifiers of the registered
\* records whose identifier contains a '.', in registration order, separated
\* by single commas with no leading or trailing comma (its comma-separated
\* fields are exactly those identifiers); identifiers without '.' are left
\* out, and the result is empty when no record qualifies.
C21_EntityList ==
  ret.op = "get_ha_entity_list"
  => /\ Fields(ret.result)
          = [i \in 1..Len(PolledRecords) |-> entity_id(PolledRecords[i])]
     /\ Len(PolledRecords) = 0 => ret.result = <<>>

\* C21 witness: the built-in WiFi sensor is registered between two Home
\* Assistant sensors and is left out of the list of two identifiers.
C21_Witness ==
  /\ ret.op = "get_ha_entity_list"
  /\ list = <<"temperature", "wifi_rssi", "charger">>
  /\ ret.result = entity_id("temperature") \o <<",">> \o entity_id("charger")

\* C23: a step that changes the list is the construction of a record that
\* was not in it and appends that record at the tail, leaving the records
\* before it in place (no removal, no reordering); no record is in the list
\* twice; update_all() calls update() on the records of the list, each once,
\* in list order.
C23_Registry ==
  /\ [][ list' # list
         => /\ ret'.op = "ISensor"
            /\ ret'.name \notin Range(list)
            /\ list' = Append(list, ret'.name) ]_vars
  /\ [](\A i \in 1..Len(list) : \A j \in 1..Len(list) :
          list[i] = list[j] => i = j)
  /\ [](ret.op = "update_all" => ret.result = list)

\* C23 witness: three records constructed in an order that is not the order
\* of their declaration, and update_all() visited them in that order.
C23_Witness ==
  /\ ret.op = "update_all"
  /\ list = <<"wifi_rssi", "gate1", "charger">>
  /\ ret.result = <<"wifi_rssi", "gate1", "charger">>

====
